---- MODULE Spec2Model ----
(***************************************************************************)
(* Model of hvpy.helpers.createMovie (src/hvpy/helpers.py): one run of the *)
(* submit / poll / download / save pipeline against a remote service whose *)
(* responses, latencies and transport failures are nondeterministic.       *)
(*                                                                         *)
(* Units.  Wall-clock time is counted in tenths of a second and the        *)
(* timeout argument (minutes, a float) in hundredths of a minute, so that  *)
(* 60 * timeout seconds is 6 * timeout tenths of a second and              *)
(* time.sleep(3) advances the clock by 30.                                 *)
(*                                                                         *)
(* Strings are sequences of tokens: the empty string is << >>, an f-string *)
(* is the concatenation of its parts.                                      *)
(***************************************************************************)
EXTENDS Integers, Sequences, FiniteSets, TLC

VARIABLES
    args,             \* the call's arguments (locals() at line 87), never modified
    pc,               \* position of the run in createMovie
    res,              \* response of queueMovie (line 94)
    timeout_counter,  \* the deadline (line 97)
    status,           \* response of the last getMovieStatus (line 99)
    binary_data,      \* response of downloadMovie (line 112)
    filename,         \* the local variable filename (lines 91, 118, 120)
    result,           \* the returned Path (line 126)
    exc,              \* the exception that ended the run
    now,              \* time.time()
    fs,               \* the file system: normalised path -> content
    fs0,              \* history: the file system when createMovie was called
    nPolls,           \* history: number of getMovieStatus calls
    nSleeps,          \* history: number of time.sleep(3) calls
    nChecks,          \* history: number of evaluations of the deadline test (line 108)
    nFetch,           \* history: number of downloadMovie calls
    nSave,            \* history: number of save_file calls
    seen,             \* history: status codes returned by the polls so far
    callTime,         \* history: time spent inside getMovieStatus calls
    slept,            \* history: the last loop iteration slept
    pollArgs,         \* history: keyword arguments of the last getMovieStatus call
    fetchArgs,        \* history: keyword arguments of the downloadMovie call
    saveArgs,         \* history: keyword arguments of the save_file call
    other             \* a second, concurrent run of createMovie (its local variables)

vars == <<args, fs0, pc, res, timeout_counter, status, binary_data, filename, result,
          exc, now, fs, nPolls, nSleeps, nChecks, nFetch, nSave, seen, callTime,
          slept, pollArgs, fetchArgs, saveArgs, other>>

----------------------------------------------------------------------------
(* Bounds of the model *)

MaxPolls == 4

MaxLatency == 10

----------------------------------------------------------------------------
(* Values *)

\* An optional value (a value that may be None, a local variable that may be
\* unassigned) is the set of its values: None is {} and the value v is {v}.
None == {}

Some(v) == {v}

The(o) == CHOOSE v \in o : TRUE

\* a key that a response dict does not carry
Absent == "Absent"

SleepInterval == 30

PollLatencies == {0, MaxLatency}

Timeouts == {-1, 0, 1, 5, 10}

Formats == {"mp4", "webm"}

Filenames == {None, Some(<<"movie">>), Some(<<"./", "movie">>)}

TimeRanges ==
    { <<[date |-> "2024-01-01", time |-> "00:00:00"], [date |-> "2024-01-02", time |-> "00:00:00"]>>,
      <<[date |-> "2024-01-01", time |-> "12:30:00"], [date |-> "2024-01-01", time |-> "12:35:00"]>> }

JobIds == {"42", "7"}

SubmitErrors == {<<"quota exceeded">>}

StatusErrors ==
    {<<"render failed">>, <<"no frames">>, <<"Exceeded timeout of ", "0.05", " minutes.">>}

Payloads == {"bytes1", "bytes2"}

OldContent == "old"

TransportFailure == "TransportFailure"

\* str(datetime): "YYYY-MM-DD HH:MM:SS"
StrDatetime(dt) == <<dt.date, " ", dt.time>>

\* str(datetime.date()): "YYYY-MM-DD"
StrDate(dt) == <<dt.date>>

\* Python truthiness of the value of dict.get(key): a missing key gives None,
\* and both None and the empty string are falsy.
Truthy(o) == o # None /\ o # Some(<< >>)

\* pathlib.Path(s): the "." components of s are dropped
Path(s) == SelectSeq(s, LAMBDA t : t # "./")

----------------------------------------------------------------------------
(* The remote service (hvpy.facade) and the storage helper (hvpy.utils) *)

\* queueMovie: {id, token} on success, {error} on failure
QueueMovieResponses ==
    { [id |-> i, token |-> "tok", error |-> None] : i \in JobIds }
    \cup { [id |-> Absent, token |-> Absent, error |-> Some(e)] : e \in SubmitErrors \cup {<< >>} }
    \cup { [id |-> i, token |-> "tok", error |-> Some(<< >>)] : i \in JobIds }

\* getMovieStatus: {status, error?}; the error accompanies status 3
GetMovieStatusResponses ==
    { [status |-> s, error |-> None] : s \in {0, 1, 2, 4} }
    \cup { [status |-> 3, error |-> Some(e)] : e \in StatusErrors }

\* downloadMovie: raw bytes
DownloadMovieResponses == Payloads

\* save_file(data, filename, overwrite): fails if the target exists and
\* overwrite is false, else the target holds data
SaveFileFails(f, name, ow) == Path(name) \in DOMAIN f /\ ~ow

SaveFileWrite(f, data, name) ==
    [p \in DOMAIN f \cup {Path(name)} |-> IF p = Path(name) THEN data ELSE f[p]]

----------------------------------------------------------------------------
(* The decisions of createMovie *)

\* mutant: the error field of the submit response is ignored
SubmitFailed_Ignored(r) == FALSE

\* mutant: the submission fails whenever the response has an error field
SubmitFailed_AnyErrorField(r) == r.error # None

\* line 95: if res.get("error")
SubmitFailed(r) == Truthy(r.error)

\* line 97: time.time() + 60 * timeout
Deadline(t, tmo) == t + 6 * tmo

\* str(timeout), timeout being given in hundredths of a minute
StrMinutes(tmo) ==
    CASE tmo = -1 -> "-0.01"
      [] tmo = 0 -> "0"
      [] tmo = 1 -> "0.01"
      [] tmo = 5 -> "0.05"
      [] tmo = 10 -> "0.1"

\* mutant: the message does not state the unit of the configured timeout
TimeoutMsg_NoUnit(tmo) == <<"Exceeded timeout of ", StrMinutes(tmo)>>

\* line 109: f"Exceeded timeout of {timeout} minutes."
TimeoutMsg(tmo) == <<"Exceeded timeout of ", StrMinutes(tmo), " minutes.">>

\* mutant: the status query is sent without the token of the submit response
GetMovieStatusArgs_NoToken(r, fmt) == [id |-> r.id, format |-> fmt]

\* lines 99-103: the keyword arguments of getMovieStatus
GetMovieStatusArgs(r, fmt) == [id |-> r.id, format |-> fmt, token |-> r.token]

\* lines 112-116: the keyword arguments of downloadMovie
DownloadMovieArgs(r, fmt, h) == [id |-> r.id, format |-> fmt, hq |-> h]

\* line 104: if status["status"] in [0, 1]
ShouldSleep(s) == s \in {0, 1}

\* mutant: the deadline is tested before the break on status 2
LoopOutcome_DeadlineFirst(s, t, deadline) ==
    IF t > deadline THEN "timeout"
    ELSE IF s = 2 THEN "break"
    ELSE IF s = 3 THEN "remote_error"
    ELSE "continue"

\* mutant: status 1 (processing) leaves the loop like status 2
LoopOutcome_BreakOnProcessing(s, t, deadline) ==
    IF s \in {1, 2} THEN "break"
    ELSE IF t > deadline THEN "timeout"
    ELSE IF s = 3 THEN "remote_error"
    ELSE "continue"

\* mutant: the deadline test is >= instead of >
LoopOutcome_AtDeadline(s, t, deadline) ==
    IF s = 2 THEN "break"
    ELSE IF t >= deadline THEN "timeout"
    ELSE IF s = 3 THEN "remote_error"
    ELSE "continue"

\* mutant: status 3 does not end the loop
LoopOutcome_IgnoreFailed(s, t, deadline) ==
    IF s = 2 THEN "break"
    ELSE IF t > deadline THEN "timeout"
    ELSE "continue"

\* mutant: the deadline is tested only in the iterations that slept
LoopOutcome_TimeoutOnlyWhenPending(s, t, deadline) ==
    IF s = 2 THEN "break"
    ELSE IF s \in {0, 1} /\ t > deadline THEN "timeout"
    ELSE IF s = 3 THEN "remote_error"
    ELSE "continue"

\* lines 106-111, evaluated at time t (after the sleep, if any)
LoopOutcome(s, t, deadline) ==
    IF s = 2 THEN "break"
    ELSE IF t > deadline THEN "timeout"
    ELSE IF s = 3 THEN "remote_error"
    ELSE "continue"

\* mutant: the format is not appended to a file name given by the caller
ResolveFilename_NoExtension(fn, id, st, et, fmt) ==
    IF fn = None
    THEN <<id, "_">> \o StrDate(st) \o <<"_">> \o StrDate(et) \o <<".", fmt>>
    ELSE The(fn)

\* mutant: the default file name is built without the job id
ResolveFilename_NoId(fn, id, st, et, fmt) ==
    IF fn = None
    THEN StrDate(st) \o <<"_">> \o StrDate(et) \o <<".", fmt>>
    ELSE The(fn) \o <<".", fmt>>

\* lines 117-120
ResolveFilename(fn, id, st, et, fmt) ==
    IF fn = None
    THEN <<id, "_">> \o StrDate(st) \o <<"_">> \o StrDate(et) \o <<".", fmt>>
    ELSE The(fn) \o <<".", fmt>>

\* mutant: save_file is always told to overwrite
SaveFileArgs_ForceOverwrite(data, name, ow) ==
    [data |-> data, filename |-> name, overwrite |-> TRUE]

\* lines 121-125
SaveFileArgs(data, name, ow) == [data |-> data, filename |-> name, overwrite |-> ow]

\* mutant: the returned path lacks the format suffix
ReturnValue_NoSuffix(name) == Path(SubSeq(name, 1, Len(name) - 2))

\* line 126
ReturnValue(name) == Path(name)

RuntimeError(m, line) == [type |-> "RuntimeError", msg |-> m, line |-> line]

KeyError(k, line) == [type |-> "KeyError", msg |-> <<k>>, line |-> line]

\* mutant: a failure of a facade call is caught and re-raised as a RuntimeError
TransportError_Wrapped(line) ==
    [type |-> "RuntimeError", msg |-> <<"connection failed">>, line |-> line]

\* lines 94, 99, 112: an exception of a facade call is not caught
TransportError(line) == [type |-> "TransportError", msg |-> <<"connection failed">>, line |-> line]

FileExistsError(name, line) == [type |-> "FileExistsError", msg |-> name, line |-> line]

\* every name createMovie can resolve to for the modelled inputs
Targets ==
    { Path(ResolveFilename(fn, i, tr[1], tr[2], fmt)) :
        fn \in Filenames, i \in JobIds, tr \in TimeRanges, fmt \in Formats }

----------------------------------------------------------------------------
(* Initial state: createMovie has been called, nothing has been sent *)

InitRun ==
    /\ \E tr \in TimeRanges, fmt \in Formats, fn \in Filenames,
          ow \in BOOLEAN, h \in BOOLEAN, tmo \in Timeouts :
          /\ args = [startTime |-> tr[1], endTime |-> tr[2], format |-> fmt,
                     filename |-> fn, overwrite |-> ow, hq |-> h, timeout |-> tmo]
          /\ filename = fn
    /\ \E existing \in {{}, Targets} : fs = [p \in existing |-> OldContent]
    /\ fs0 = fs
    /\ pc = "queueMovie"
    /\ res = None
    /\ timeout_counter = None
    /\ status = None
    /\ binary_data = None
    /\ result = None
    /\ exc = None
    /\ now = 0
    /\ nPolls = 0
    /\ nSleeps = 0
    /\ nChecks = 0
    /\ nFetch = 0
    /\ nSave = 0
    /\ seen = {}
    /\ callTime = 0
    /\ slept = FALSE
    /\ pollArgs = None
    /\ fetchArgs = None
    /\ saveArgs = None

\* one run of createMovie, no other run
Init == InitRun /\ other = None

----------------------------------------------------------------------------
(* Actions *)

\* lines 94-97: submit, test the error field, compute the deadline
QueueMovie ==
    /\ pc = "queueMovie"
    /\ \/ /\ pc' = "failed"
          /\ exc' = Some(TransportError(94))
          /\ UNCHANGED <<res, timeout_counter>>
       \/ \E r \in QueueMovieResponses :
             /\ res' = Some(r)
             /\ IF SubmitFailed(r)
                THEN /\ pc' = "failed"
                     /\ exc' = Some(RuntimeError(The(r.error), 96))
                     /\ UNCHANGED timeout_counter
                ELSE /\ pc' = "getMovieStatus"
                     /\ timeout_counter' = Some(Deadline(now, args.timeout))
                     /\ UNCHANGED exc
    /\ UNCHANGED <<other, args, fs0, status, binary_data, filename, result, now, fs, nPolls,
                   nSleeps, nChecks, nFetch, nSave, seen, callTime, slept,
                   pollArgs, fetchArgs, saveArgs>>

\* lines 99-103: one status query, which takes one of the times in lats;
\* res["id"] raises KeyError when the key is missing
Poll(lats) ==
    /\ pc = "getMovieStatus"
    /\ nPolls < MaxPolls
    /\ IF The(res).id = Absent
       THEN /\ pc' = "failed"
            /\ exc' = Some(KeyError("id", 100))
            /\ UNCHANGED <<status, now, nPolls, seen, callTime, pollArgs>>
       ELSE /\ nPolls' = nPolls + 1
            /\ pollArgs' = Some(GetMovieStatusArgs(The(res), args.format))
            /\ \E lat \in lats :
                  /\ now' = now + lat
                  /\ callTime' = callTime + lat
            /\ \/ /\ pc' = "failed"
                  /\ exc' = Some(TransportError(99))
                  /\ UNCHANGED <<status, seen>>
               \/ \E s \in GetMovieStatusResponses :
                     /\ pc' = "handleStatus"
                     /\ status' = Some(s)
                     /\ seen' = seen \cup {s.status}
                     /\ UNCHANGED exc
    /\ UNCHANGED <<other, args, fs0, res, timeout_counter, binary_data, filename, result, fs,
                   nSleeps, nChecks, nFetch, nSave, slept, fetchArgs, saveArgs>>

\* lines 99-103, the query taking any of the modelled times
GetMovieStatus == Poll(PollLatencies)

\* lines 99-103, the clock advancing during the query
GetMovieStatusTimed == Poll(PollLatencies \ {0})

\* lines 104-111: sleep on 0/1, break on 2, deadline test, raise on 3
HandleStatus ==
    /\ pc = "handleStatus"
    /\ LET s == The(status).status
           t == IF ShouldSleep(s) THEN now + SleepInterval ELSE now
           out == LoopOutcome(s, t, The(timeout_counter))
       IN /\ now' = t
          /\ slept' = ShouldSleep(s)
          /\ nSleeps' = IF ShouldSleep(s) THEN nSleeps + 1 ELSE nSleeps
          /\ nChecks' = IF out = "break" THEN nChecks ELSE nChecks + 1
          /\ CASE out = "break" -> pc' = "downloadMovie" /\ UNCHANGED exc
               [] out = "timeout" ->
                    pc' = "failed" /\ exc' = Some(RuntimeError(TimeoutMsg(args.timeout), 109))
               [] out = "remote_error" ->
                    pc' = "failed" /\ exc' = Some(RuntimeError(The(The(status).error), 111))
               [] OTHER -> pc' = "getMovieStatus" /\ UNCHANGED exc
    /\ UNCHANGED <<other, args, fs0, res, timeout_counter, status, binary_data, filename, result,
                   fs, nPolls, nFetch, nSave, seen, callTime, pollArgs, fetchArgs,
                   saveArgs>>

\* lines 112-116
DownloadMovie ==
    /\ pc = "downloadMovie"
    /\ nFetch' = nFetch + 1
    /\ fetchArgs' = Some(DownloadMovieArgs(The(res), args.format, args.hq))
    /\ \E d \in DownloadMovieResponses \cup {TransportFailure} :
          IF d = TransportFailure
          THEN /\ pc' = "failed"
               /\ exc' = Some(TransportError(112))
               /\ UNCHANGED binary_data
          ELSE /\ pc' = "save_file"
               /\ binary_data' = Some(d)
               /\ UNCHANGED exc
    /\ UNCHANGED <<other, args, fs0, res, timeout_counter, status, filename, result, now, fs,
                   nPolls, nSleeps, nChecks, nSave, seen, callTime, slept, pollArgs,
                   saveArgs>>

\* lines 117-126: resolve the file name, save, return the path
SaveFile ==
    /\ pc = "save_file"
    /\ LET name == ResolveFilename(filename, The(res).id, args.startTime, args.endTime,
                                   args.format)
           a == SaveFileArgs(The(binary_data), name, args.overwrite)
       IN /\ filename' = Some(name)
          /\ saveArgs' = Some(a)
          /\ nSave' = nSave + 1
          /\ IF SaveFileFails(fs, a.filename, a.overwrite)
             THEN /\ pc' = "failed"
                  /\ exc' = Some(FileExistsError(a.filename, 121))
                  /\ UNCHANGED <<fs, result>>
             ELSE /\ pc' = "done"
                  /\ fs' = SaveFileWrite(fs, a.data, a.filename)
                  /\ result' = Some(ReturnValue(name))
                  /\ UNCHANGED exc
    /\ UNCHANGED <<other, args, fs0, res, timeout_counter, status, binary_data, now, nPolls,
                   nSleeps, nChecks, nFetch, seen, callTime, slept, pollArgs,
                   fetchArgs>>

Next == QueueMovie \/ GetMovieStatus \/ HandleStatus \/ DownloadMovie \/ SaveFile

Spec == Init /\ [][Next]_vars

----------------------------------------------------------------------------
(* A run in which every call returns and the clock advances during every   *)
(* status query.  The timeouts are those whose deadline passes within      *)
(* MaxPolls queries.                                                       *)

LiveTimeouts == { t \in Timeouts : 6 * t < MaxPolls * MaxLatency }

LiveInit == Init /\ args.timeout \in LiveTimeouts

LiveNext ==
    QueueMovie \/ GetMovieStatusTimed \/ HandleStatus \/ DownloadMovie \/ SaveFile

\* the interpreter keeps executing the one thread of the run
LiveSpec == LiveInit /\ [][LiveNext]_vars /\ WF_vars(LiveNext)

----------------------------------------------------------------------------
(* Two concurrent runs of createMovie.  The first run is the one above; the *)
(* second keeps its own local variables in the record other.  Every local   *)
(* variable of createMovie belongs to one call; the runs share the file     *)
(* system only.  The clock of a run counts from the return of its own       *)
(* submission, and a sleep of one run takes no time of the other.  The      *)
(* service answers the second run at once and without transport failures.   *)

OtherStatusResponses ==
    { [status |-> s, error |-> None] : s \in {0, 2} }
    \cup { [status |-> 3, error |-> Some(<<"render failed">>)] }

OtherInit ==
    \E fn \in Filenames, ow \in BOOLEAN :
        other = [args |-> [startTime |-> args.startTime, endTime |-> args.endTime,
                           format |-> args.format, filename |-> fn, overwrite |-> ow,
                           hq |-> FALSE, timeout |-> 1],
                 pc |-> "queueMovie", res |-> None, timeout_counter |-> None,
                 status |-> None, binary_data |-> None, filename |-> fn,
                 result |-> None, exc |-> None, now |-> 0, nPolls |-> 0]

TwoRunInit ==
    /\ InitRun
    /\ args.timeout = 0
    /\ args.format = "mp4"
    /\ ~args.hq
    /\ args.startTime.time = "00:00:00"
    /\ OtherInit

run1 == <<args, fs0, pc, res, timeout_counter, status, binary_data, filename, result,
          exc, now, nPolls, nSleeps, nChecks, nFetch, nSave, seen, callTime,
          slept, pollArgs, fetchArgs, saveArgs>>

\* lines 94-97 in the second run
OtherQueueMovie ==
    /\ other.pc = "queueMovie"
    /\ \E r \in QueueMovieResponses :
          other' = IF SubmitFailed(r)
                   THEN [other EXCEPT !.pc = "failed", !.res = Some(r),
                                      !.exc = Some(RuntimeError(The(r.error), 96))]
                   ELSE [other EXCEPT !.pc = "getMovieStatus", !.res = Some(r),
                                      !.timeout_counter =
                                          Some(Deadline(other.now, other.args.timeout))]
    /\ UNCHANGED <<run1, fs>>

\* lines 99-103 in the second run
OtherGetMovieStatus ==
    /\ other.pc = "getMovieStatus"
    /\ other.nPolls < MaxPolls
    /\ IF The(other.res).id = Absent
       THEN other' = [other EXCEPT !.pc = "failed", !.exc = Some(KeyError("id", 100))]
       ELSE \E s \in OtherStatusResponses :
               other' = [other EXCEPT !.pc = "handleStatus", !.status = Some(s),
                                      !.nPolls = @ + 1]
    /\ UNCHANGED <<run1, fs>>

\* lines 104-111 in the second run
OtherHandleStatus ==
    /\ other.pc = "handleStatus"
    /\ LET s == The(other.status).status
           t == IF ShouldSleep(s) THEN other.now + SleepInterval ELSE other.now
           out == LoopOutcome(s, t, The(other.timeout_counter))
       IN other' =
            CASE out = "break" -> [other EXCEPT !.now = t, !.pc = "downloadMovie"]
              [] out = "timeout" ->
                   [other EXCEPT !.now = t, !.pc = "failed",
                                 !.exc = Some(RuntimeError(TimeoutMsg(other.args.timeout), 109))]
              [] out = "remote_error" ->
                   [other EXCEPT !.now = t, !.pc = "failed",
                                 !.exc = Some(RuntimeError(The(The(other.status).error), 111))]
              [] OTHER -> [other EXCEPT !.now = t, !.pc = "getMovieStatus"]
    /\ UNCHANGED <<run1, fs>>

\* lines 112-116 in the second run
OtherDownloadMovie ==
    /\ other.pc = "downloadMovie"
    /\ \E d \in DownloadMovieResponses :
          other' = [other EXCEPT !.pc = "save_file", !.binary_data = Some(d)]
    /\ UNCHANGED <<run1, fs>>

\* lines 117-126 in the second run
OtherSaveFile ==
    /\ other.pc = "save_file"
    /\ LET name == ResolveFilename(other.filename, The(other.res).id, other.args.startTime,
                                   other.args.endTime, other.args.format)
           a == SaveFileArgs(The(other.binary_data), name, other.args.overwrite)
       IN IF SaveFileFails(fs, a.filename, a.overwrite)
          THEN /\ other' = [other EXCEPT !.pc = "failed", !.filename = Some(name),
                                         !.exc = Some(FileExistsError(a.filename, 121))]
               /\ UNCHANGED fs
          ELSE /\ other' = [other EXCEPT !.pc = "done", !.filename = Some(name),
                                         !.result = Some(ReturnValue(name))]
               /\ fs' = SaveFileWrite(fs, a.data, a.filename)
    /\ UNCHANGED run1

TwoRunNext ==
    \/ QueueMovie
    \/ GetMovieStatus
    \/ HandleStatus
    \/ DownloadMovie
    \/ SaveFile
    \/ OtherQueueMovie
    \/ OtherGetMovieStatus
    \/ OtherHandleStatus
    \/ OtherDownloadMovie
    \/ OtherSaveFile

TwoRunSpec == TwoRunInit /\ [][TwoRunNext]_vars

----------------------------------------------------------------------------
(* Properties *)

\* C1: if the response of queueMovie carries a non-empty error field, the run
\* fails with that error and makes no getMovieStatus, downloadMovie or
\* save_file call.
C1_SubmitErrorIsFatal ==
    (res # None /\ Truthy(The(res).error)) =>
        /\ pc = "failed"
        /\ exc = Some(RuntimeError(The(The(res).error), 96))
        /\ nPolls = 0
        /\ nSleeps = 0
        /\ nFetch = 0
        /\ nSave = 0

C1_Witness ==
    /\ res # None
    /\ The(res).error = Some(<<"quota exceeded">>)
    /\ pc = "failed"

\* C2: the first poll that returns status 2 ends the polling loop at once (no
\* further poll, no sleep, no deadline test after it) and is followed by
\* exactly one downloadMovie call.
C2_AfterComplete ==
    2 \in seen =>
        /\ The(status).status = 2
        /\ pc \in {"handleStatus", "downloadMovie", "save_file", "done", "failed"}
        /\ pc \in {"handleStatus", "downloadMovie"} => nFetch = 0
        /\ pc \in {"save_file", "done", "failed"} => nFetch = 1
        /\ pc = "failed" => The(exc).line >= 112

C2_CompleteEndsLoop ==
    /\ []C2_AfterComplete
    /\ [][2 \in seen => /\ nPolls' = nPolls
                        /\ nSleeps' = nSleeps
                        /\ nChecks' = nChecks
                        /\ now' = now]_vars

C2_Witness ==
    /\ pc = "done"
    /\ seen = {0, 4, 2}
    /\ nPolls = 3
    /\ nFetch = 1

\* C3: a poll that returns status 3 ends the loop with an error whose message
\* is exactly the error string of that status response, whatever the timeout,
\* and the run makes no downloadMovie call.
C3_FailedStatusRaisesItsMessage ==
    (status # None /\ The(status).status = 3 /\ pc # "handleStatus") =>
        /\ pc = "failed"
        /\ The(exc).type = "RuntimeError"
        /\ The(exc).msg = The(The(status).error)
        /\ nFetch = 0

\* C4: a terminal status wins over the deadline: when a poll returns status 2
\* or 3 at a time at or past the deadline, the run goes on to the download
\* (for 2) or fails with the error of the service (for 3), and never with the
\* timeout error.
C4_TerminalStatusWinsOverDeadline ==
    (/\ status # None
     /\ The(status).status \in {2, 3}
     /\ pc # "handleStatus"
     /\ now >= The(timeout_counter)) =>
        /\ exc # Some(RuntimeError(TimeoutMsg(args.timeout), 109))
        /\ The(status).status = 3 =>
               exc = Some(RuntimeError(The(The(status).error), 111))
        /\ The(status).status = 2 => nFetch = 1 \/ pc = "downloadMovie"

\* an error raised by the polling loop itself (lines 109 and 111), as opposed
\* to one propagated from a collaborator or from a malformed submit response
LoopRaised == pc = "failed" /\ The(exc).line \in {109, 111}

\* C5: the polling loop is left towards the download only after some poll
\* returned 2, and raises only after some poll returned 3 or with the clock
\* past the deadline; while the polls return only 0 or 1 it is left only by
\* the timeout.
C5_LoopExits ==
    /\ (pc \in {"downloadMovie", "save_file", "done"} \/ nFetch > 0) => 2 \in seen
    /\ LoopRaised => (3 \in seen \/ now > The(timeout_counter))
    /\ (LoopRaised /\ seen \subseteq {0, 1}) =>
           /\ exc = Some(RuntimeError(TimeoutMsg(args.timeout), 109))
           /\ now > The(timeout_counter)

C5_Witness ==
    /\ LoopRaised
    /\ seen = {0, 1}
    /\ nPolls = 3
    /\ The(exc).line = 109

\* C6: with a timeout T >= 0 and no poll returning 2 or 3, the run keeps
\* polling only while the clock is not past the deadline (the time at which
\* the submission returned plus 60*T seconds), and then fails with the timeout
\* error stating T, after the deadline and, the remote calls taking no time,
\* at most one sleep interval after it.
C6_TimeoutAccuracy ==
    (args.timeout >= 0 /\ nPolls > 0 /\ seen \cap {2, 3} = {}) =>
        /\ The(timeout_counter) = 6 * args.timeout
        /\ pc = "getMovieStatus" => now <= The(timeout_counter)
        /\ LoopRaised =>
              /\ exc = Some(RuntimeError(TimeoutMsg(args.timeout), 109))
              /\ now > The(timeout_counter)
              /\ callTime = 0 => now <= The(timeout_counter) + SleepInterval

C6_Witness ==
    /\ args.timeout = 5
    /\ callTime = 0
    /\ LoopRaised
    /\ seen \subseteq {0, 1}
    /\ now = The(timeout_counter) + SleepInterval

\* C7: there is no partial success: save_file is called only after a poll
\* returned 2 and downloadMovie returned bytes; a run that ends in an error
\* raised during submission, polling or download has written no file; a run
\* that returns a path has written the downloaded bytes to that very path.
C7_NoPartialSuccess ==
    /\ nSave > 0 => (2 \in seen /\ nFetch = 1 /\ binary_data # None)
    /\ (pc = "failed" /\ The(exc).line <= 116) => (nSave = 0 /\ fs = fs0)
    /\ pc # "done" => result = None
    /\ pc = "done" =>
          /\ exc = None
          /\ result # None
          /\ The(result) \in DOMAIN fs
          /\ fs[The(result)] = The(binary_data)
          /\ \A p \in DOMAIN fs \ {The(result)} : p \in DOMAIN fs0 /\ fs[p] = fs0[p]

C7_Witness ==
    /\ pc = "done"
    /\ args.filename = Some(<<"./", "movie">>)
    /\ The(result) = <<"movie", ".", "webm">>
    /\ fs[The(result)] = "bytes2"
    /\ fs0 = << >>

\* C8: at the save step, if the target exists and overwrite is False the save
\* fails, the existing file keeps its content and no path is returned; if
\* overwrite is True the file holds the downloaded bytes after the run; the
\* overwrite flag save_file gets is the one createMovie was given.
C8_OverwriteHonoured ==
    nSave > 0 =>
        LET a == The(saveArgs)
            target == Path(a.filename)
        IN /\ a.overwrite = args.overwrite
           /\ a.data = The(binary_data)
           /\ (target \in DOMAIN fs0 /\ ~args.overwrite) =>
                 /\ pc = "failed"
                 /\ result = None
                 /\ fs = fs0
           /\ args.overwrite =>
                 /\ pc = "done"
                 /\ fs[target] = The(binary_data)

C8_Witness ==
    /\ nSave = 1
    /\ Path(The(saveArgs).filename) \in DOMAIN fs0
    /\ ~args.overwrite
    /\ pc = "failed"
    /\ The(exc).type = "FileExistsError"

C10_DefaultNameIsStartEndFormat ==
    (nSave > 0 /\ args.filename = None) =>
        The(saveArgs).filename =
            StrDatetime(args.startTime) \o <<"_">> \o StrDatetime(args.endTime)
                \o <<".", args.format>>

\* the exceptions createMovie raises when the service reports a failure, at
\* submission (line 96) or by status 3 (line 111)
ServiceErrors ==
    { RuntimeError(m, 96) : m \in SubmitErrors } \cup { RuntimeError(m, 111) : m \in StatusErrors }

C13_SleepBetweenPolls ==
    /\ pc = "getMovieStatus" => nSleeps = nPolls
    /\ (pc = "getMovieStatus" /\ nPolls > 0) => slept

\* the steps the state machine Submitting -> Polling -> Fetching ->
\* Persisting -> Done allows, Failed being reachable from every stage
StageOrder ==
    { <<"queueMovie", "getMovieStatus">>, <<"getMovieStatus", "handleStatus">>,
      <<"handleStatus", "getMovieStatus">>, <<"handleStatus", "downloadMovie">>,
      <<"downloadMovie", "save_file">>, <<"save_file", "done">> }
    \cup { <<p, "failed">> :
             p \in {"queueMovie", "getMovieStatus", "handleStatus", "downloadMovie", "save_file"} }

C14_Counts ==
    /\ nFetch <= 1
    /\ nSave <= 1
    /\ pc = "queueMovie" => (res = None /\ nPolls = 0 /\ nFetch = 0 /\ nSave = 0)
    /\ nFetch > 0 => nPolls >= 1
    /\ nSave > 0 => nFetch = 1
    /\ pc \in {"handleStatus", "downloadMovie", "save_file", "done"} =>
          (res # None /\ nPolls >= 1 /\ exc = None)
    /\ pc \in {"save_file", "done"} => nFetch = 1
    /\ pc = "done" => nSave = 1

\* C14: the calls of a run follow the state machine: one submit, then the
\* polls, then at most one download, then at most one save_file; a failed (or
\* finished) run makes no further step, and no poll follows a poll that
\* returned 2 or 3.
C14_StateMachineOrder ==
    /\ []C14_Counts
    /\ [][/\ <<pc, pc'>> \in StageOrder
          /\ nPolls' \in {nPolls, nPolls + 1}
          /\ nPolls' # nPolls => (pc = "getMovieStatus" /\ seen \cap {2, 3} = {})
          /\ nFetch' # nFetch => pc = "downloadMovie"
          /\ nSave' # nSave => pc = "save_file"]_vars

C14_Witness ==
    /\ pc = "done"
    /\ nPolls = 3
    /\ nSleeps = 2
    /\ nFetch = 1
    /\ nSave = 1

\* C15: the timeout error is raised only in a loop iteration whose poll
\* returned 0 or 1, after the sleep of that iteration; an iteration that did
\* not sleep never raises it.
C15_TimeoutOnlyAfterSleep ==
    (pc = "failed" /\ The(exc).line = 109) =>
        (slept /\ The(status).status \in {0, 1})

\* C16: an exception raised by queueMovie, getMovieStatus or downloadMovie
\* ends the run with that very exception: the call is not made again, no call
\* of a later stage is made and no file is written.
C16_AfterTransportFailure ==
    (pc = "failed" /\ The(exc).line \in {94, 99, 112}) =>
        /\ The(exc).type = "TransportError"
        /\ The(exc).msg = <<"connection failed">>
        /\ The(exc).line = 94 => (res = None /\ nPolls = 0 /\ nFetch = 0)
        /\ The(exc).line = 99 => (nPolls >= 1 /\ nFetch = 0)
        /\ The(exc).line = 112 => (nFetch = 1 /\ binary_data = None)
        /\ nSave = 0
        /\ result = None
        /\ fs = fs0

C16_TransportFailureIsFatal ==
    /\ []C16_AfterTransportFailure
    /\ [][(pc = "failed" /\ The(exc).line \in {94, 99, 112}) => UNCHANGED vars]_vars

C16_Witness ==
    /\ pc = "failed"
    /\ The(exc).type = "TransportError"
    /\ The(exc).line = 99
    /\ nPolls = 2
    /\ seen = {0}

\* C20: once the submission succeeded, a timeout is raised only after at least
\* one poll, whatever the timeout (zero and negative included); a run whose
\* first poll returns 2 goes on to the download and the save even if the
\* deadline had passed at that poll.
C20_PollBeforeTimeout ==
    /\ (pc = "failed" /\ The(exc).line = 109) => nPolls >= 1
    /\ (pc = "getMovieStatus" /\ nPolls = 0) => exc = None
    /\ (nPolls = 1 /\ status # None /\ The(status).status = 2 /\ pc # "handleStatus") =>
          /\ nFetch = 1 \/ pc = "downloadMovie"
          /\ pc = "failed" => The(exc).line \in {112, 121}
          /\ (pc = "failed" /\ The(exc).line = 121) =>
                (Path(The(saveArgs).filename) \in DOMAIN fs0 /\ ~args.overwrite)

C20_Witness ==
    /\ args.timeout = -1
    /\ nPolls = 1
    /\ now > The(timeout_counter)
    /\ pc = "done"

C19_AnyErrorFieldIsFatal ==
    (res # None /\ The(res).error # None) =>
        /\ pc = "failed"
        /\ The(exc).type = "RuntimeError"
        /\ The(exc).msg = The(The(res).error)
        /\ nPolls = 0

\* C19 as amended: the submission fails exactly when the error field of the
\* submit response is non-empty, with that message verbatim and without any
\* poll; a response whose error field is the empty string is taken as a
\* success: the deadline is set and the run goes on to the polling loop, where
\* it polls with the id of the response or, the response having no id, raises
\* KeyError.
C19_NonEmptyErrorIsFatal ==
    res # None =>
        /\ (pc = "failed" /\ The(exc).line = 96) = (The(res).error \notin {None, Some(<< >>)})
        /\ The(res).error \notin {None, Some(<< >>)} =>
              /\ pc = "failed"
              /\ The(exc).type = "RuntimeError"
              /\ The(exc).msg = The(The(res).error)
              /\ nPolls = 0
              /\ timeout_counter = None
        /\ The(res).error = Some(<< >>) =>
              /\ timeout_counter # None
              /\ The(res).id = Absent =>
                    (nPolls = 0 /\ (pc = "failed" => The(exc) = KeyError("id", 100)))
              /\ (The(res).id # Absent /\ pc # "getMovieStatus") => nPolls >= 1

C19_Witness ==
    /\ res # None
    /\ The(res).error = Some(<< >>)
    /\ The(res).id = "42"
    /\ nPolls = 2
    /\ pc = "done"

\* C18: every call returning and the clock advancing, every run eventually is
\* done or failed, for every timeout and every sequence of status codes, those
\* made of codes outside 0..3 included: the loop is bounded by the deadline
\* alone.
C18_Termination == <>(pc \in {"done", "failed"})

\* a run that saw nothing but the unknown code 4 and was ended by the deadline
C18_Witness ==
    /\ pc = "failed"
    /\ The(exc).line = 109
    /\ seen = {4}
    /\ nPolls >= 2
    /\ nSleeps = 0

\* the path a run with arguments a and submit response r saves to
ExpectedTarget(a, r) ==
    Path(IF a.filename = None
         THEN <<r.id, "_", a.startTime.date, "_", a.endTime.date, ".", a.format>>
         ELSE The(a.filename) \o <<".", a.format>>)

\* alone, a run's save fails exactly when its target existed at the start and
\* overwrite is False
SaveFailsAlone(a, r) == ExpectedTarget(a, r) \in DOMAIN fs0 /\ ~a.overwrite

\* the two runs are for different jobs: the service gave them different ids
DifferentJobs ==
    (res # None /\ other.res # None /\ The(res).id # Absent) =>
        The(res).id # The(other.res).id

\* both runs have a job and save to the same path
SameTarget ==
    /\ res # None
    /\ other.res # None
    /\ The(res).id # Absent
    /\ The(other.res).id # Absent
    /\ ExpectedTarget(args, The(res)) = ExpectedTarget(other.args, The(other.res))

\* each run uses the handle and the deadline it made itself
OwnHandleAndDeadline ==
    /\ timeout_counter # None => The(timeout_counter) = 6 * args.timeout
    /\ other.timeout_counter # None => The(other.timeout_counter) = 6 * other.args.timeout
    /\ pollArgs # None =>
          (The(pollArgs).id = The(res).id /\ The(pollArgs).token = The(res).token)
    /\ fetchArgs # None => The(fetchArgs).id = The(res).id

\* the outcome of each run is the one it has when it runs alone
OutcomeAsAlone ==
    /\ nSave > 0 => ((pc = "failed") = SaveFailsAlone(args, The(res)))
    /\ pc = "done" =>
          (The(result) = ExpectedTarget(args, The(res)) /\ fs[The(result)] = The(binary_data))
    /\ (other.pc = "failed" /\ The(other.exc).line = 121) =>
          SaveFailsAlone(other.args, The(other.res))
    /\ other.pc = "done" =>
          /\ ~SaveFailsAlone(other.args, The(other.res))
          /\ The(other.result) = ExpectedTarget(other.args, The(other.res))
          /\ fs[The(other.result)] = The(other.binary_data)

\* C12: two concurrent runs for different jobs are fully independent: they
\* share no mutable state, and each run has the outcome, the handle and the
\* deadline it has when it runs alone with the same responses of the service.
C12_RunsIndependent ==
    /\ OwnHandleAndDeadline
    /\ DifferentJobs => OutcomeAsAlone

\* C12 as amended: two concurrent runs for different jobs share no variable,
\* each uses its own handle and deadline, and each has the outcome it has
\* alone, unless both save to the same path (the callers gave the same file
\* name): the file system is shared.
C12_IndependentUnlessSameFile ==
    /\ OwnHandleAndDeadline
    /\ (DifferentJobs /\ ~SameTarget) => OutcomeAsAlone

\* both runs finished, each with the default name of its own job
C12_Witness ==
    /\ pc = "done"
    /\ other.pc = "done"
    /\ args.filename = None
    /\ other.args.filename = None
    /\ The(res).id # The(other.res).id
    /\ fs0 = << >>
    /\ Cardinality(DOMAIN fs) = 2

====
